---- MODULE Spec2Model ----
(***************************************************************************)
(* A model of sdr_converter.py: the .sub capture parser (parse_sub), the   *)
(* protocol dispatch and waveform synthesis of process_file, the .c16/.txt *)
(* writer (write_hrf_file) and the batch loop of main with its per-file    *)
(* timeout guard (process_with_timeout).                                   *)
(*                                                                         *)
(* Text is modelled character by character: a Python str is a sequence of  *)
(* one-character strings, a file is the sequence of lines readlines()      *)
(* returns (each with its trailing "\n").                                  *)
(***************************************************************************)
EXTENDS Integers, Sequences, FiniteSets, TLC

VARIABLES
    capture,      \* SpecParse: the lines of the capture file handed to parse_sub
    parsed,       \* SpecParse: what parse_sub returned ([called |-> FALSE] before the call)
    syn_in,       \* SpecSynth: durations, sampling_rate, intermediate_freq, amplitude
    syn_pc,       \* SpecSynth: "start", "synthesized", "serialized"
    IQSequence,   \* SpecSynth: what durations_to_bin_sequence returned
    buff,         \* SpecSynth: what sequence_to_16le_buffer returned
    sub_files,    \* Spec: the paths of the collected input files, in list order
    mpc,          \* Spec: where main is: "loop", "join", "alive", "done"
    mi,           \* Spec: index in sub_files of the file main is at
    handed,       \* Spec: the files handed to process_with_timeout, in call order
    wpc,          \* Spec: per file, where its worker thread is in process_file
    local,        \* Spec: per file, the locals of its process_file call
    result0,      \* Spec: per file, result[0] of its process_with_timeout call
    c16,          \* Spec: per file, its .c16 output on disk: [st, data]
    txt,          \* Spec: per file, its .txt output on disk: [st, data]
    expired,      \* Spec: the files whose join returned because the timeout passed
    skipLogged    \* Spec: the files for which line 337 logged 'Skipped ... due to timeout'

pvars == <<capture, parsed>>
svars == <<syn_in, syn_pc, IQSequence, buff>>
bvars == <<sub_files, mpc, mi, handed, wpc, local, result0, c16, txt, expired, skipLogged>>
vars == <<capture, parsed, syn_in, syn_pc, IQSequence, buff,
          sub_files, mpc, mi, handed, wpc, local, result0, c16, txt, expired, skipLogged>>

(* Bounds of the model *)
MaxTokLen == 2        \* the free data token: every string of up to MaxTokLen TokChars
MaxDataLines == 2     \* lines after the header lines of a capture of SpecParse
MaxDurations == 3     \* durations of a list handed to the synthesizer in SpecSynth
NumFiles == 2         \* .sub files main collected, in Spec and FairSpec

----------------------------------------------------------------------------
(* Python str helpers used by parse_sub *)

\* str.isspace() for the characters of the model's alphabet
IsSpace(c) == c \in {" ", "\t", "\n", "\r"}

RECURSIVE LStrip(_)
LStrip(s) == IF s # <<>> /\ IsSpace(Head(s)) THEN LStrip(Tail(s)) ELSE s

RECURSIVE RStrip(_)
RStrip(s) ==
    IF s # <<>> /\ IsSpace(s[Len(s)]) THEN RStrip(SubSeq(s, 1, Len(s) - 1)) ELSE s

\* str.strip()
Strip(s) == RStrip(LStrip(s))

\* str.startswith(prefix)
StartsWith(s, prefix) ==
    Len(s) >= Len(prefix) /\ SubSeq(s, 1, Len(prefix)) = prefix

\* c in s
Contains(s, c) == \E i \in 1..Len(s) : s[i] = c

\* s.split(c, 1), for an s that contains c
SplitFirst(s, c) ==
    LET i == CHOOSE j \in 1..Len(s) : s[j] = c /\ \A k \in 1..(j - 1) : s[k] # c
    IN  [k |-> SubSeq(s, 1, i - 1), v |-> SubSeq(s, i + 1, Len(s))]

UpperLetters == <<"A","B","C","D","E","F","G","H","I","J","K","L","M",
                  "N","O","P","Q","R","S","T","U","V","W","X","Y","Z">>
LowerLetters == <<"a","b","c","d","e","f","g","h","i","j","k","l","m",
                  "n","o","p","q","r","s","t","u","v","w","x","y","z">>

\* str.lower()
Lower(s) ==
    [i \in 1..Len(s) |->
        IF \E j \in 1..26 : UpperLetters[j] = s[i]
        THEN LowerLetters[CHOOSE j \in 1..26 : UpperLetters[j] = s[i]]
        ELSE s[i]]

\* str.split(): the maximal runs of non-whitespace characters, in order
RECURSIVE SplitWs(_, _, _)
SplitWs(s, cur, acc) ==
    IF s = <<>> THEN (IF cur = <<>> THEN acc ELSE Append(acc, cur))
    ELSE IF IsSpace(Head(s))
         THEN SplitWs(Tail(s), <<>>, IF cur = <<>> THEN acc ELSE Append(acc, cur))
         ELSE SplitWs(Tail(s), Append(cur, Head(s)), acc)

Split(s) == SplitWs(s, <<>>, <<>>)

HexLower == <<"0","1","2","3","4","5","6","7","8","9","a","b","c","d","e","f">>
HexUpper == <<"0","1","2","3","4","5","6","7","8","9","A","B","C","D","E","F">>

\* the value of a character as a digit; 16 (a digit of no base up to 16) for any other
DigitVal(c) ==
    IF \E j \in 1..16 : HexLower[j] = c
    THEN (CHOOSE j \in 1..16 : HexLower[j] = c) - 1
    ELSE IF \E j \in 1..16 : HexUpper[j] = c
         THEN (CHOOSE j \in 1..16 : HexUpper[j] = c) - 1
         ELSE 16

RECURSIVE DigitsValue(_, _, _)
DigitsValue(digits, base, acc) ==
    IF digits = <<>> THEN acc
    ELSE DigitsValue(Tail(digits), base, acc * base + DigitVal(Head(digits)))

(* int(value, base) for base 10 and 16 on a token without whitespace or     *)
(* underscores: an optional sign, for base 16 an optional 0x/0X prefix,     *)
(* then one or more digits of the base.  ok = FALSE models ValueError.      *)
PyInt(value, base) ==
    LET signed   == value # <<>> /\ Head(value) \in {"+", "-"}
        body     == IF signed THEN Tail(value) ELSE value
        prefixed == base = 16 /\ Len(body) >= 2 /\ body[1] = "0" /\ body[2] \in {"x", "X"}
        digits   == IF prefixed THEN SubSeq(body, 3, Len(body)) ELSE body
        ok       == digits # <<>> /\ \A i \in 1..Len(digits) : DigitVal(digits[i]) < base
        mag      == DigitsValue(digits, base, 0)
    IN  [ok  |-> ok,
         val |-> IF ~ok THEN 0 ELSE IF signed /\ Head(value) = "-" THEN 0 - mag ELSE mag]

----------------------------------------------------------------------------
(* parse_sub *)

RAW_Data == <<"R","A","W","_","D","a","t","a",":">>
K_protocol == <<"p","r","o","t","o","c","o","l">>
K_frequency == <<"f","r","e","q","u","e","n","c","y">>

SUPPORTED_PROTOCOLS ==
    { <<"R","A","W">>, <<"B","i","n","R","A","W">>, <<"C","A","M","E">>,
      <<"H","o","l","t","e","k","_","H","T","1","2","X">>,
      <<"P","T","2","2","6","2">>, <<"F","S","K">>, <<"K","e","e","l","o","q">>,
      <<"R","C","5","2","2">>, <<"1","-","W","i","r","e">>, <<"D","H","T">> }

\* a dict as a function from its keys; d[k] = v
EmptyDict == [k \in {} |-> <<>>]
DictSet(d, k, v) == [x \in (DOMAIN d) \cup {k} |-> IF x = k THEN v ELSE d[x]]
\* d.get(k, default)
DictGet(d, k, default) == IF k \in DOMAIN d THEN d[k] ELSE default

\* the return value None of parse_sub
None == [ok |-> FALSE]

(* ScanLines as the variant without a sentinel would be: the first line     *)
(* without a colon starts the data section.                                 *)
RECURSIVE ScanLines_Implicit(_, _, _, _)
ScanLines_Implicit(lines, info, data_started, data_lines) ==
    IF lines = <<>> THEN [info |-> info, data_lines |-> data_lines]
    ELSE LET line == Strip(Head(lines))
             rest == Tail(lines)
         IN  IF line = <<>> THEN ScanLines_Implicit(rest, info, data_started, data_lines)
             ELSE IF StartsWith(line, RAW_Data)
             THEN ScanLines_Implicit(rest, info, TRUE,
                      Append(data_lines, Strip(SubSeq(line, Len(RAW_Data) + 1, Len(line)))))
             ELSE IF data_started \/ ~Contains(line, ":")
             THEN ScanLines_Implicit(rest, info, TRUE, Append(data_lines, line))
             ELSE LET kv == SplitFirst(line, ":")
                  IN  ScanLines_Implicit(rest, DictSet(info, Lower(kv.k), Strip(kv.v)),
                                         data_started, data_lines)

(* The loop over the lines (lines 63-79): the header dict and the data      *)
(* lines it collects.                                                       *)
RECURSIVE ScanLines(_, _, _, _)
ScanLines(lines, info, data_started, data_lines) ==
    IF lines = <<>> THEN [info |-> info, data_lines |-> data_lines]
    ELSE LET line == Strip(Head(lines))
             rest == Tail(lines)
         IN  IF line = <<>> THEN ScanLines(rest, info, data_started, data_lines)
             ELSE IF StartsWith(line, RAW_Data)
             THEN ScanLines(rest, info, TRUE,
                      Append(data_lines, Strip(SubSeq(line, Len(RAW_Data) + 1, Len(line)))))
             ELSE IF data_started
             THEN ScanLines(rest, info, data_started, Append(data_lines, line))
             ELSE IF Contains(line, ":")
             THEN LET kv == SplitFirst(line, ":")
                  IN  ScanLines(rest, DictSet(info, Lower(kv.k), Strip(kv.v)),
                                data_started, data_lines)
             ELSE ScanLines(rest, info, data_started, data_lines)

\* lines 91-98: one token, base 10 first and base 16 when that raises
ParseToken(value) ==
    IF PyInt(value, 10).ok THEN PyInt(value, 10) ELSE PyInt(value, 16)

\* ParseChunk dropping a token that is neither decimal nor hexadecimal
RECURSIVE ParseChunk_SkipInvalid(_, _)
ParseChunk_SkipInvalid(values, chunk) ==
    IF values = <<>> THEN [ok |-> TRUE, chunk |-> chunk]
    ELSE LET r == ParseToken(Head(values))
         IN  ParseChunk_SkipInvalid(Tail(values),
                                    IF r.ok THEN Append(chunk, r.val) ELSE chunk)

\* lines 89-98: the tokens of one data line; ok = FALSE is the return None of line 98
RECURSIVE ParseChunk(_, _)
ParseChunk(values, chunk) ==
    IF values = <<>> THEN [ok |-> TRUE, chunk |-> chunk]
    ELSE LET r == ParseToken(Head(values))
         IN  IF r.ok THEN ParseChunk(Tail(values), Append(chunk, r.val))
             ELSE [ok |-> FALSE, chunk |-> <<>>]

\* lines 85-99: one chunk per non-empty data line
RECURSIVE ParseChunks(_, _)
ParseChunks(data_lines, chunks) ==
    IF data_lines = <<>> THEN [ok |-> TRUE, chunks |-> chunks]
    ELSE IF Head(data_lines) = <<>> THEN ParseChunks(Tail(data_lines), chunks)
    ELSE LET c == ParseChunk(Split(Strip(Head(data_lines))), <<>>)
         IN  IF c.ok THEN ParseChunks(Tail(data_lines), Append(chunks, c.chunk))
             ELSE [ok |-> FALSE, chunks |-> <<>>]

\* the protocol compared without regard to case
ProtocolSupported_IgnoreCase(info) ==
    /\ K_protocol \in DOMAIN info
    /\ \E p \in SUPPORTED_PROTOCOLS : Lower(p) = Lower(info[K_protocol])

\* line 81: info.get('protocol') in SUPPORTED_PROTOCOLS
ProtocolSupported(info) ==
    K_protocol \in DOMAIN info /\ info[K_protocol] \in SUPPORTED_PROTOCOLS

(* parse_sub(file): `readable` is whether open/readlines succeeds, `lines`  *)
(* what readlines returns.                                                  *)
parse_sub(readable, lines) ==
    IF ~readable THEN None
    ELSE LET s == ScanLines(lines, EmptyDict, FALSE, <<>>)
         IN  IF ~ProtocolSupported(s.info) THEN None
             ELSE LET c == ParseChunks(s.data_lines, <<>>)
                  IN  IF ~c.ok THEN None
                      ELSE [ok |-> TRUE, info |-> s.info, chunks |-> c.chunks]

----------------------------------------------------------------------------
(* The protocol branches of process_file *)

RECURSIVE Flatten(_)
Flatten(chunks) == IF chunks = <<>> THEN <<>> ELSE Head(chunks) \o Flatten(Tail(chunks))

RECURSIVE BinDigits(_)
BinDigits(n) ==
    IF n < 2 THEN <<HexLower[n + 1]>> ELSE Append(BinDigits(n \div 2), HexLower[(n % 2) + 1])

RECURSIVE ZeroPad(_, _)
ZeroPad(digits, width) ==
    IF Len(digits) >= width THEN digits ELSE ZeroPad(<<"0">> \o digits, width)

(* format(value, '0<width>b'): the binary digits of |value|, zero-padded to *)
(* the width, the sign of a negative value first and counted in the width.  *)
Format(value, width) ==
    IF value < 0 THEN <<"-">> \o ZeroPad(BinDigits(0 - value), width - 1)
    ELSE ZeroPad(BinDigits(value), width)

(* A Python list of durations is [kind, items]: kind "int" for a list of    *)
(* integers, "str" for a list of formatted strings.                         *)
process_raw(info) == [kind |-> "int", items |-> Flatten(info.chunks)]

\* process_binraw and the seven branches with the same body: format(value, '08b')
process_binraw(info) ==
    LET flat == Flatten(info.chunks)
    IN  [kind |-> "str", items |-> [i \in 1..Len(flat) |-> Format(flat[i], 8)]]

\* process_holtek: format(value, '012b')
process_holtek(info) ==
    LET flat == Flatten(info.chunks)
    IN  [kind |-> "str", items |-> [i \in 1..Len(flat) |-> Format(flat[i], 12)]]

\* lines 256-277 of process_file: the list handed to durations_to_bin_sequence
Dispatch(info) ==
    LET protocol == DictGet(info.info, K_protocol, <<>>)
    IN  IF protocol = <<"R","A","W">> THEN process_raw(info)
        ELSE IF protocol = <<"H","o","l","t","e","k","_","H","T","1","2","X">>
             THEN process_holtek(info)
        ELSE IF protocol \in SUPPORTED_PROTOCOLS THEN process_binraw(info)
        ELSE [kind |-> "int", items |-> Flatten(info.chunks)]

----------------------------------------------------------------------------
(* Waveform synthesis *)

Abs(x) == IF x < 0 THEN 0 - x ELSE x

\* line 212: int(32767 * (amplitude / 100)); the float product truncates to this
\* quotient for every amplitude in 0..200
max_amplitude(amplitude) == (32767 * amplitude) \div 100

(* lines 211-219: (int(cos(i * step) * max_amplitude), int(sin(i * step) *  *)
(* max_amplitude)) for i = 0, 1, ..., with step = 2 * pi * intermediate_freq *)
(* / sampling_rate, as CPython's doubles give them.                         *)
TrigTable(sampling_rate, intermediate_freq, amplitude) ==
    CASE sampling_rate = 500000 /\ intermediate_freq = 5000 /\ amplitude = 100 ->
         <<
           <<32767, 0>>, <<32702, 2057>>, <<32508, 4106>>, <<32186, 6139>>,
           <<31737, 8148>>, <<31163, 10125>>, <<30465, 12062>>, <<29648, 13951>>,
           <<28713, 15785>>, <<27666, 17557>>, <<26509, 19259>>, <<25247, 20886>>,
           <<23886, 22430>>, <<22430, 23886>>, <<20886, 25247>>, <<19259, 26509>>,
           <<17557, 27666>>, <<15785, 28713>>, <<13951, 29648>>, <<12062, 30465>>,
           <<10125, 31163>>, <<8148, 31737>>, <<6139, 32186>>, <<4106, 32508>>,
           <<2057, 32702>>, <<0, 32767>>, <<-2057, 32702>>, <<-4106, 32508>>,
           <<-6139, 32186>>, <<-8148, 31737>>, <<-10125, 31163>>, <<-12062, 30465>>,
           <<-13951, 29648>>, <<-15785, 28713>>, <<-17557, 27666>>, <<-19259, 26509>>,
           <<-20886, 25247>>, <<-22430, 23886>>, <<-23886, 22430>>, <<-25247, 20886>>,
           <<-26509, 19259>>, <<-27666, 17557>>, <<-28713, 15785>>, <<-29648, 13951>>,
           <<-30465, 12062>>, <<-31163, 10125>>, <<-31737, 8148>>, <<-32186, 6139>>,
           <<-32508, 4106>>, <<-32702, 2057>>, <<-32767, 0>>, <<-32702, -2057>>,
           <<-32508, -4106>>, <<-32186, -6139>>, <<-31737, -8148>>, <<-31163, -10125>>,
           <<-30465, -12062>>, <<-29648, -13951>>, <<-28713, -15785>>,
           <<-27666, -17557>>, <<-26509, -19259>>, <<-25247, -20886>>,
           <<-23886, -22430>>, <<-22430, -23886>>, <<-20886, -25247>>,
           <<-19259, -26509>>, <<-17557, -27666>>, <<-15785, -28713>>,
           <<-13951, -29648>>, <<-12062, -30465>>, <<-10125, -31163>>,
           <<-8148, -31737>>, <<-6139, -32186>>, <<-4106, -32508>>, <<-2057, -32702>>,
           <<0, -32767>>, <<2057, -32702>>, <<4106, -32508>>, <<6139, -32186>>,
           <<8148, -31737>>, <<10125, -31163>>, <<12062, -30465>>, <<13951, -29648>>,
           <<15785, -28713>>, <<17557, -27666>>, <<19259, -26509>>, <<20886, -25247>>,
           <<22430, -23886>>, <<23886, -22430>>, <<25247, -20886>>, <<26509, -19259>>,
           <<27666, -17557>>, <<28713, -15785>>, <<29648, -13951>>, <<30465, -12062>>,
           <<31163, -10125>>, <<31737, -8148>>, <<32186, -6139>>, <<32508, -4106>>,
           <<32702, -2057>>
         >>
      [] sampling_rate = 500000 /\ intermediate_freq = 5000 /\ amplitude = 50 ->
         <<
           <<16383, 0>>, <<16350, 1028>>, <<16253, 2053>>, <<16092, 3069>>,
           <<15868, 4074>>, <<15581, 5062>>, <<15232, 6030>>, <<14823, 6975>>,
           <<14356, 7892>>, <<13832, 8778>>, <<13254, 9629>>, <<12623, 10442>>,
           <<11942, 11214>>, <<11214, 11942>>, <<10442, 12623>>, <<9629, 13254>>,
           <<8778, 13832>>, <<7892, 14356>>, <<6975, 14823>>, <<6030, 15232>>,
           <<5062, 15581>>, <<4074, 15868>>, <<3069, 16092>>, <<2053, 16253>>,
           <<1028, 16350>>, <<0, 16383>>, <<-1028, 16350>>, <<-2053, 16253>>,
           <<-3069, 16092>>, <<-4074, 15868>>, <<-5062, 15581>>, <<-6030, 15232>>,
           <<-6975, 14823>>, <<-7892, 14356>>, <<-8778, 13832>>, <<-9629, 13254>>,
           <<-10442, 12623>>, <<-11214, 11942>>, <<-11942, 11214>>, <<-12623, 10442>>,
           <<-13254, 9629>>, <<-13832, 8778>>, <<-14356, 7892>>, <<-14823, 6975>>,
           <<-15232, 6030>>, <<-15581, 5062>>, <<-15868, 4074>>, <<-16092, 3069>>,
           <<-16253, 2053>>, <<-16350, 1028>>, <<-16383, 0>>, <<-16350, -1028>>,
           <<-16253, -2053>>, <<-16092, -3069>>, <<-15868, -4074>>, <<-15581, -5062>>,
           <<-15232, -6030>>, <<-14823, -6975>>, <<-14356, -7892>>, <<-13832, -8778>>,
           <<-13254, -9629>>, <<-12623, -10442>>, <<-11942, -11214>>,
           <<-11214, -11942>>, <<-10442, -12623>>, <<-9629, -13254>>, <<-8778, -13832>>,
           <<-7892, -14356>>, <<-6975, -14823>>, <<-6030, -15232>>, <<-5062, -15581>>,
           <<-4074, -15868>>, <<-3069, -16092>>, <<-2053, -16253>>, <<-1028, -16350>>,
           <<0, -16383>>, <<1028, -16350>>, <<2053, -16253>>, <<3069, -16092>>,
           <<4074, -15868>>, <<5062, -15581>>, <<6030, -15232>>, <<6975, -14823>>,
           <<7892, -14356>>, <<8778, -13832>>, <<9629, -13254>>, <<10442, -12623>>,
           <<11214, -11942>>, <<11942, -11214>>, <<12623, -10442>>, <<13254, -9629>>,
           <<13832, -8778>>, <<14356, -7892>>, <<14823, -6975>>, <<15232, -6030>>,
           <<15581, -5062>>, <<15868, -4074>>, <<16092, -3069>>, <<16253, -2053>>,
           <<16350, -1028>>
         >>
      [] sampling_rate = 44100 /\ intermediate_freq = 5000 /\ amplitude = 100 ->
         <<
           <<32767, 0>>, <<24798, 21417>>, <<4768, 32418>>, <<-17581, 27651>>,
           <<-31379, 9434>>, <<-29915, -13370>>, <<-13900, -29672>>, <<8874, -31542>>,
           <<27333, -18070>>, <<32497, 4190>>
         >>
      [] sampling_rate = 44100 /\ intermediate_freq = 5000 /\ amplitude = 50 ->
         <<
           <<16383, 0>>, <<12398, 10708>>, <<2384, 16208>>, <<-8790, 13825>>,
           <<-15689, 4717>>, <<-14957, -6684>>, <<-6950, -14835>>, <<4437, -15770>>,
           <<13666, -9035>>, <<16248, 2095>>
         >>

(* Sample i of an "on" pulse.  With max_amplitude 0 both products are 0;    *)
(* with intermediate_freq 0 the step is 0.0, cos is 1.0 and sin is 0.0.     *)
OnSample(i, sampling_rate, intermediate_freq, amplitude) ==
    IF max_amplitude(amplitude) = 0 THEN <<0, 0>>
    ELSE IF intermediate_freq = 0 THEN <<max_amplitude(amplitude), 0>>
    ELSE TrigTable(sampling_rate, intermediate_freq, amplitude)[i + 1]

\* us_to_sin with the off pulses dropped
us_to_sin_OffDropped(level, duration, sampling_rate, intermediate_freq, amplitude) ==
    LET iterations == (sampling_rate * duration) \div 1000000
    IN  IF iterations <= 0 \/ ~level THEN <<>>
        ELSE [i \in 1..iterations |->
                 OnSample(i - 1, sampling_rate, intermediate_freq, amplitude)]

(* us_to_sin: int(sampling_rate * duration / 1_000_000) samples; the float  *)
(* quotient truncates to the integer quotient while the product is below    *)
(* 2^53 and the quotient below 2^33.                                        *)
us_to_sin(level, duration, sampling_rate, intermediate_freq, amplitude) ==
    LET iterations == (sampling_rate * duration) \div 1000000
    IN  IF iterations <= 0 THEN <<>>
        ELSE IF level
             THEN [i \in 1..iterations |->
                      OnSample(i - 1, sampling_rate, intermediate_freq, amplitude)]
             ELSE [i \in 1..iterations |-> <<0, 0>>]

RECURSIVE ExtendAll(_, _, _, _, _)
ExtendAll(items, sampling_rate, intermediate_freq, amplitude, sequence) ==
    IF items = <<>> THEN sequence
    ELSE ExtendAll(Tail(items), sampling_rate, intermediate_freq, amplitude,
             sequence \o us_to_sin(Head(items) > 0, Abs(Head(items)),
                                   sampling_rate, intermediate_freq, amplitude))

(* durations_to_bin_sequence: `duration > 0` on the first element of a list *)
(* of strings raises TypeError ('>' not supported between str and int).     *)
durations_to_bin_sequence(durations, sampling_rate, intermediate_freq, amplitude) ==
    IF durations.kind = "str" /\ durations.items # <<>>
    THEN [ok |-> FALSE, exc |-> "TypeError"]
    ELSE [ok |-> TRUE,
          sequence |-> IF durations.items = <<>> THEN <<>>
                       ELSE ExtendAll(durations.items, sampling_rate, intermediate_freq,
                                      amplitude, <<>>)]

\* one int16 as two bytes, low byte first
Int16LE(v) == LET u == (v + 65536) % 65536 IN <<u % 256, u \div 256>>
\* one int16 as two bytes, high byte first
Int16BE(v) == LET u == (v + 65536) % 65536 IN <<u \div 256, u % 256>>

\* the buffer with every value high byte first
sequence_to_16be_buffer(sequence) ==
    [b \in 1..(4 * Len(sequence)) |->
        Int16BE(sequence[((b - 1) \div 4) + 1][(((b - 1) % 4) \div 2) + 1])[((b - 1) % 2) + 1]]

(* sequence_to_16le_buffer: np.array(sequence, dtype=np.int16).flatten()    *)
(* .tobytes(): byte b belongs to row (b - 1) div 4, column ((b - 1) mod 4)  *)
(* div 2 (I, then Q), each value in the machine's (little-endian) byte      *)
(* order.                                                                   *)
sequence_to_16le_buffer(sequence) ==
    [b \in 1..(4 * Len(sequence)) |->
        Int16LE(sequence[((b - 1) \div 4) + 1][(((b - 1) % 4) \div 2) + 1])[((b - 1) % 2) + 1]]

----------------------------------------------------------------------------
(* SpecParse: parse_sub on bounded captures *)

L_ProtocolRAW == <<"P","r","o","t","o","c","o","l",":"," ","R","A","W","\n">>
L_ProtocolBinRAW == <<"P","R","O","T","O","C","O","L",":","B","i","n","R","A","W","\n">>
L_ProtocolXYZ == <<"P","r","o","t","o","c","o","l",":"," ","X","Y","Z","\n">>
L_ProtocolLower == <<"P","r","o","t","o","c","o","l",":"," ","r","a","w","\n">>
L_Frequency == <<"F","r","e","q","u","e","n","c","y",":"," ","4","3","3","9","2","0","0","0","0","\n">>
L_Data == <<"R","A","W","_","D","a","t","a",":"," ","1","0","0"," ","-","2","0","0"," ","5","0","\n">>
L_Plain == <<"1","0","0"," ","-","2","0","0"," ","5","0","\n">>
L_Sentinel == <<"R","A","W","_","D","a","t","a",":","\n">>

\* the header lines of the captures: RAW with a frequency, an unsupported protocol,
\* no protocol, a supported name in the wrong case, a duplicate key (last wins)
Headers ==
    { <<L_Frequency, L_ProtocolRAW>>, <<L_ProtocolXYZ>>, <<>>, <<L_ProtocolLower>>,
      <<L_ProtocolXYZ, L_ProtocolBinRAW>> }

TokChars == {"1", "F", "G", "-"}
CuratedTokens ==
    { <<"3","1">>, <<"1","F">>, <<"1","G">>, <<"0","x","1","F">>, <<"-","0","X","1","f">>,
      <<"+","5">>, <<"0","x">>, <<"x","1">>, <<"f","f">>, <<"-","2","0","0">>, <<"0","1","0">> }
Tokens == CuratedTokens \cup UNION { [1..k -> TokChars] : k \in 0..MaxTokLen }

\* the lines after the header, given the free token: with and without the sentinel
BodyLines(tok) ==
    { L_Data, L_Plain, L_Sentinel,
      <<" ">> \o tok \o <<" ","1","F","\n">>,
      RAW_Data \o <<" ","3","1","\t">> \o tok \o <<"\n">> }

Captures ==
    { h \o b : h \in Headers,
               b \in UNION { UNION { [1..k -> BodyLines(tok)] : k \in 0..MaxDataLines }
                             : tok \in Tokens } }

SynthIdle ==
    /\ syn_in = [durations |-> <<>>, sampling_rate |-> 500000,
                 intermediate_freq |-> 5000, amplitude |-> 100]
    /\ syn_pc = "idle"
    /\ IQSequence = <<>>
    /\ buff = <<>>

BatchIdle ==
    /\ sub_files = <<>>
    /\ mpc = "idle"
    /\ mi = 0
    /\ handed = <<>>
    /\ wpc = <<>>
    /\ local = <<>>
    /\ result0 = <<>>
    /\ c16 = <<>>
    /\ txt = <<>>
    /\ expired = {}
    /\ skipLogged = {}

ParseInit ==
    /\ capture \in Captures
    /\ parsed = [called |-> FALSE]
    /\ SynthIdle
    /\ BatchIdle

ParseSub ==
    /\ ~parsed.called
    /\ parsed' = [called |-> TRUE, result |-> parse_sub(TRUE, capture)]
    /\ UNCHANGED <<capture, svars, bvars>>

ParseNext == ParseSub

SpecParse == ParseInit /\ [][ParseNext]_vars

----------------------------------------------------------------------------
(* Claims about parse_sub, under SpecParse *)

TokenOk(t) == PyInt(t, 10).ok \/ PyInt(t, 16).ok
\* decimal first; hexadecimal only when decimal fails
TokenValue(t) == IF PyInt(t, 10).ok THEN PyInt(t, 10).val ELSE PyInt(t, 16).val
ChunkOf(l) == LET toks == Split(l) IN [i \in 1..Len(toks) |-> TokenValue(toks[i])]
ChunksOf(ls) == [i \in 1..Len(ls) |-> ChunkOf(ls[i])]
NonEmptyLines(ls) == SelectSeq(ls, LAMBDA l : l # <<>>)

\* the data lines parse_sub tokenizes: those its scan of the capture collected
ScannedData == NonEmptyLines(ScanLines(capture, EmptyDict, FALSE, <<>>).data_lines)
DataTokens == UNION { { Split(ScannedData[i])[j] : j \in 1..Len(Split(ScannedData[i])) }
                      : i \in 1..Len(ScannedData) }

(* C3: every token of the data section is read as a base-10 integer first   *)
(* and as a base-16 integer only when that fails; a token that is neither   *)
(* makes parse_sub return None, and no token is dropped: "31" is 31, "1F"   *)
(* is 31, a data section containing "1G" fails.                             *)
C3_TokenFallback ==
    parsed.called =>
        /\ (\E t \in DataTokens : ~TokenOk(t)) => ~parsed.result.ok
        /\ <<"1","G">> \in DataTokens => ~parsed.result.ok
        /\ parsed.result.ok =>
              /\ parsed.result.chunks = ChunksOf(ScannedData)
              /\ \A i \in 1..Len(ScannedData) : \A j \in 1..Len(Split(ScannedData[i])) :
                    Split(ScannedData[i])[j] \in { <<"3","1">>, <<"1","F">> }
                        => parsed.result.chunks[i][j] = 31

\* a capture parsed successfully in which a token was read as hexadecimal
C3_Witness ==
    /\ parsed.called /\ parsed.result.ok
    /\ <<"1","F">> \in DataTokens
    /\ \E i \in 1..Len(parsed.result.chunks) : \E j \in 1..Len(parsed.result.chunks[i]) :
          parsed.result.chunks[i][j] = 31 /\ Split(ScannedData[i])[j] = <<"1","F">>

IsSentinelLine(l) == StartsWith(Strip(l), RAW_Data)
HasSentinel(lines) == \E i \in 1..Len(lines) : IsSentinelLine(lines[i])
\* a line of the data section, its RAW_Data: prefix removed
Payload(l) ==
    LET t == Strip(l)
    IN  IF StartsWith(t, RAW_Data) THEN Strip(SubSeq(t, Len(RAW_Data) + 1, Len(t))) ELSE t
\* the non-empty payloads of the lines from line `first` on
PayloadsFrom(lines, first) ==
    NonEmptyLines([i \in 1..(Len(lines) - first + 1) |-> Payload(lines[first + i - 1])])
FirstWhere(lines, P(_)) ==
    CHOOSE i \in 1..Len(lines) : P(lines[i]) /\ \A j \in 1..(i - 1) : ~P(lines[j])

\* the data section as parse_sub has it: from the first RAW_Data: line on
SentinelData(lines) ==
    IF HasSentinel(lines) THEN PayloadsFrom(lines, FirstWhere(lines, IsSentinelLine))
    ELSE <<>>

IsPlainLine(l) == Strip(l) # <<>> /\ ~Contains(Strip(l), ":")
\* the data section as the claim has it: without a sentinel, from the first
\* line without a colon on
ImplicitData(lines) ==
    IF HasSentinel(lines) THEN PayloadsFrom(lines, FirstWhere(lines, IsSentinelLine))
    ELSE IF \E i \in 1..Len(lines) : IsPlainLine(lines[i])
         THEN PayloadsFrom(lines, FirstWhere(lines, IsPlainLine))
         ELSE <<>>

(* C5, as amended: the data section starts at the first line that starts    *)
(* with RAW_Data: and only there; a line without a colon before it is       *)
(* ignored.  From that line on every line that is non-empty once its        *)
(* RAW_Data: prefix is removed gives one chunk, in line order.  A capture   *)
(* without a RAW_Data: line parses to no chunk at all.                      *)
C5_SentinelOnly ==
    (parsed.called /\ parsed.result.ok) =>
        /\ parsed.result.chunks = ChunksOf(SentinelData(capture))
        /\ ~HasSentinel(capture) => parsed.result.chunks = <<>>

\* a plain duration line before the sentinel line is ignored, the sentinel line is read
C5_Witness ==
    /\ parsed.called /\ parsed.result.ok
    /\ capture = <<L_Frequency, L_ProtocolRAW, L_Plain, L_Data>>
    /\ parsed.result.chunks = << <<100, 0 - 200, 50>> >>

(* C5 as claimed: without a sentinel the data section starts at the first   *)
(* line without a colon.                                                    *)
C5_ImplicitStart ==
    (parsed.called /\ parsed.result.ok) =>
        parsed.result.chunks = ChunksOf(ImplicitData(capture))

----------------------------------------------------------------------------
(* SpecSynth: durations_to_bin_sequence and sequence_to_16le_buffer on      *)
(* bounded lists of integer durations                                       *)

SmallDurations == {0, 1, 0 - 1, 3, 0 - 4, 7, 23, 0 - 46}
ExampleDurations == { <<100, 0 - 200, 50>>, <<0 - 100, 50>> }
DurationLists ==
    ExampleDurations \cup UNION { [1..k -> SmallDurations] : k \in 0..MaxDurations }

\* <<sampling_rate, intermediate_freq, amplitude>>
SynthParams ==
    { <<500000, 5000, 100>>, <<500000, 5000, 50>>, <<500000, 0, 100>>,
      <<500000, 5000, 0>>, <<44100, 5000, 100>> }

ParseIdle ==
    /\ capture = <<>>
    /\ parsed = [called |-> FALSE]

SynthInit ==
    /\ \E d \in DurationLists, p \in SynthParams :
          syn_in = [durations |-> d, sampling_rate |-> p[1],
                    intermediate_freq |-> p[2], amplitude |-> p[3]]
    /\ syn_pc = "start"
    /\ IQSequence = <<>>
    /\ buff = <<>>
    /\ ParseIdle
    /\ BatchIdle

Synthesize ==
    /\ syn_pc = "start"
    /\ IQSequence' = durations_to_bin_sequence(
                         [kind |-> "int", items |-> syn_in.durations],
                         syn_in.sampling_rate, syn_in.intermediate_freq,
                         syn_in.amplitude).sequence
    /\ syn_pc' = "synthesized"
    /\ UNCHANGED <<syn_in, buff, pvars, bvars>>

Serialize ==
    /\ syn_pc = "synthesized"
    /\ buff' = sequence_to_16le_buffer(IQSequence)
    /\ syn_pc' = "serialized"
    /\ UNCHANGED <<syn_in, IQSequence, pvars, bvars>>

SynthNext == Synthesize \/ Serialize

SpecSynth == SynthInit /\ [][SynthNext]_vars

----------------------------------------------------------------------------
(* Claims about synthesis and serialization, under SpecSynth *)

\* floor(sampling_rate * |d| / 1_000_000)
SampleCount(d, sampling_rate) == (sampling_rate * Abs(d)) \div 1000000

RECURSIVE SumCounts(_, _)
SumCounts(ds, sampling_rate) ==
    IF ds = <<>> THEN 0
    ELSE SampleCount(Head(ds), sampling_rate) + SumCounts(Tail(ds), sampling_rate)

(* C2: a duration d contributes floor(sampling_rate * |d| / 1_000_000)      *)
(* samples, as many for d as for -d and none when that floor is 0; the      *)
(* sequence is as long as the sum of these counts ([100, -200, 50] at       *)
(* 500000 Hz: 175).                                                         *)
C2_SampleCount ==
    syn_pc # "start" =>
        /\ Len(IQSequence) = SumCounts(syn_in.durations, syn_in.sampling_rate)
        /\ \A k \in 1..Len(syn_in.durations) :
              LET d == syn_in.durations[k]
                  on == us_to_sin(TRUE, Abs(d), syn_in.sampling_rate,
                                  syn_in.intermediate_freq, syn_in.amplitude)
                  off == us_to_sin(FALSE, Abs(d), syn_in.sampling_rate,
                                   syn_in.intermediate_freq, syn_in.amplitude)
              IN  /\ Len(on) = SampleCount(d, syn_in.sampling_rate)
                  /\ Len(off) = Len(on)
        /\ (syn_in.durations = <<100, 0 - 200, 50>> /\ syn_in.sampling_rate = 500000)
              => Len(IQSequence) = 175

\* the example list synthesized at 500000 Hz
C2_Witness ==
    /\ syn_pc = "synthesized"
    /\ syn_in.durations = <<100, 0 - 200, 50>>
    /\ syn_in.sampling_rate = 500000
    /\ Len(IQSequence) = 175

\* the signed 16-bit value of a little-endian byte pair
DecodeLE(lo, hi) ==
    IF lo + 256 * hi >= 32768 THEN lo + 256 * hi - 65536 ELSE lo + 256 * hi

(* C8: the buffer of n samples is 4 * n bytes, I0, Q0, I1, Q1, ... each a   *)
(* signed 16-bit little-endian integer, nothing before or after; an empty   *)
(* sequence gives the empty buffer.                                         *)
C8_BufferLayout ==
    syn_pc = "serialized" =>
        /\ Len(buff) = 4 * Len(IQSequence)
        /\ \A b \in 1..Len(buff) : buff[b] \in 0..255
        /\ \A k \in 1..Len(IQSequence) :
              /\ DecodeLE(buff[4 * k - 3], buff[4 * k - 2]) = IQSequence[k][1]
              /\ DecodeLE(buff[4 * k - 1], buff[4 * k]) = IQSequence[k][2]
        /\ IQSequence = <<>> => buff = <<>>

\* the example list serialized: 700 bytes, with a negative component among them
C8_Witness ==
    /\ syn_pc = "serialized"
    /\ syn_in.durations = <<100, 0 - 200, 50>>
    /\ syn_in.sampling_rate = 500000
    /\ Len(buff) = 700
    /\ \E k \in 1..Len(IQSequence) : IQSequence[k][1] < 0

----------------------------------------------------------------------------
(* Spec: the batch loop of main (lines 326-340), process_with_timeout and   *)
(* the worker threads running process_file                                  *)

L_SmallData == <<"R","A","W","_","D","a","t","a",":"," ","4"," ","-","4"," ","6","\n">>
S_sample_rate == <<"s","a","m","p","l","e","_","r","a","t","e","=">>
S_center_frequency == <<"c","e","n","t","e","r","_","f","r","e","q","u","e","n","c","y","=">>
S_unknown == <<"u","n","k","n","o","w","n">>
S_default_frequency == <<"4","1","8","0","0","0","0","0","0">>

\* lines 282 and 284 of process_file
PF_sampling_rate == 500000
PF_amplitude == 100

(* The .sub files a run can meet, by path: a RAW capture, the same capture  *)
(* declared BinRAW, a protocol outside the supported set (a supported name  *)
(* in the wrong case), no protocol line, and a RAW capture without data.    *)
Catalogue == {"raw.sub", "binraw.sub", "lower.sub", "noprotocol.sub", "empty.sub"}

\* what readlines() returns for the file
FileLines(file) ==
    CASE file = "raw.sub" -> <<L_Frequency, L_ProtocolRAW, L_SmallData>>
      [] file = "binraw.sub" -> <<L_Frequency, L_ProtocolBinRAW, L_SmallData>>
      [] file = "lower.sub" -> <<L_ProtocolLower, L_SmallData>>
      [] file = "noprotocol.sub" -> <<L_SmallData>>
      [] file = "empty.sub" -> <<L_ProtocolRAW>>

\* whether an earlier run left a .c16 and a .txt for the file
Existing(file) == file \in {"lower.sub", "empty.sub"}

Absent == [st |-> "absent", data |-> <<>>]
\* a file an earlier run left; its content plays no part
Old == [st |-> "old", data |-> <<>>]
\* a file opened for writing (created or truncated) whose write failed
Partial == [st |-> "partial", data |-> <<>>]
InitialDisk(file) == IF Existing(file) THEN Old ELSE Absent

Files == 1..NumFiles
Ended == {"done", "raised"}

\* str(n) for n >= 0
RECURSIVE IntToStr(_)
IntToStr(n) ==
    IF n < 10 THEN <<HexLower[n + 1]>>
    ELSE Append(IntToStr(n \div 10), HexLower[(n % 10) + 1])

\* generate_meta_string(frequency, sampling_rate)
generate_meta_string(frequency, sampling_rate) ==
    S_sample_rate \o IntToStr(sampling_rate) \o <<"\n">> \o S_center_frequency \o frequency

Min(a, b) == IF a < b THEN a ELSE b

\* process_file has no return statement with a value
ProcessFileReturn == "None"

Init ==
    /\ sub_files \in [Files -> Catalogue]
    /\ mpc = "loop"
    /\ mi = 1
    /\ handed = <<>>
    /\ wpc = [f \in Files |-> "idle"]
    /\ local = [f \in Files |->
                   [info |-> None, converted |-> FALSE, IQSequence |-> <<>>, buff |-> <<>>]]
    /\ result0 = [f \in Files |-> "None"]
    /\ c16 = [f \in Files |-> InitialDisk(sub_files[f])]
    /\ txt = [f \in Files |-> InitialDisk(sub_files[f])]
    /\ expired = {}
    /\ skipLogged = {}
    /\ ParseIdle
    /\ SynthIdle

(* main *)

\* lines 327-335 and 105-111: the next file is handed to process_with_timeout,
\* which starts its thread
StartThread ==
    /\ mpc = "loop"
    /\ mi <= NumFiles
    /\ handed' = Append(handed, mi)
    /\ wpc' = [wpc EXCEPT ![mi] = "parse"]
    /\ mpc' = "join"
    /\ UNCHANGED <<sub_files, mi, local, result0, c16, txt, expired, skipLogged, pvars,
                   svars>>

\* thread.join() without a timeout: the wait never expires
TimeoutNever(f) == FALSE

\* line 112: the wait of thread.join(timeout) can expire while the thread runs
TimeoutElapsed(f) == wpc[f] \notin Ended

\* line 112: join returns because the thread ended
JoinFinished ==
    /\ mpc = "join"
    /\ wpc[mi] \in Ended
    /\ mpc' = "alive"
    /\ UNCHANGED <<sub_files, mi, handed, wpc, local, result0, c16, txt, expired,
                   skipLogged, pvars, svars>>

\* line 112: join returns because `timeout` seconds passed
JoinTimeout ==
    /\ mpc = "join"
    /\ TimeoutElapsed(mi)
    /\ expired' = expired \cup {mi}
    /\ mpc' = "alive"
    /\ UNCHANGED <<sub_files, mi, handed, wpc, local, result0, c16, txt, skipLogged,
                   pvars, svars>>

(* lines 114-117 and 336-340: is_alive decides what process_with_timeout    *)
(* returns; main logs the skip when that is None, and goes to the next file *)
CheckAlive ==
    /\ mpc = "alive"
    /\ LET alive == wpc[mi] \notin Ended
           result == IF alive THEN "None" ELSE result0[mi]
       IN  skipLogged' = IF result = "None" THEN skipLogged \cup {mi} ELSE skipLogged
    /\ mi' = mi + 1
    /\ mpc' = IF mi + 1 > NumFiles THEN "done" ELSE "loop"
    /\ UNCHANGED <<sub_files, handed, wpc, local, result0, c16, txt, expired, pvars,
                   svars>>

MainNext == StartThread \/ JoinFinished \/ JoinTimeout \/ CheckAlive

(* the worker thread of file f: target() calling process_file *)

\* lines 248-251: parse_sub; None ends process_file
Parse(f) ==
    /\ wpc[f] = "parse"
    /\ \E readable \in BOOLEAN :
          LET info == parse_sub(readable, FileLines(sub_files[f]))
          IN  IF info.ok
              THEN /\ local' = [local EXCEPT ![f].info = info]
                   /\ wpc' = [wpc EXCEPT ![f] = "convert"]
                   /\ UNCHANGED result0
              ELSE /\ wpc' = [wpc EXCEPT ![f] = "done"]
                   /\ result0' = [result0 EXCEPT ![f] = ProcessFileReturn]
                   /\ UNCHANGED local
    /\ UNCHANGED <<sub_files, mpc, mi, handed, c16, txt, expired, skipLogged, pvars,
                   svars>>

(* lines 256-288: the protocol branch, the synthesis parameters, synthesis  *)
(* and serialization.  int() of a frequency that is no integer and the      *)
(* comparison of a str duration with 0 raise; the exception ends the thread.*)
Convert(f) ==
    /\ wpc[f] = "convert"
    /\ LET info == local[f].info
           chunks == Dispatch(info)
           frequency == PyInt(DictGet(info.info, K_frequency, S_default_frequency), 10)
           intermediate_freq == Min(frequency.val \div 100, 5000)
           r == IF frequency.ok
                THEN durations_to_bin_sequence(chunks, PF_sampling_rate,
                                               intermediate_freq, PF_amplitude)
                ELSE [ok |-> FALSE, exc |-> "ValueError"]
       IN  IF r.ok
           THEN /\ local' = [local EXCEPT ![f].converted = TRUE,
                                          ![f].IQSequence = r.sequence,
                                          ![f].buff = sequence_to_16le_buffer(r.sequence)]
                /\ wpc' = [wpc EXCEPT ![f] = "write_c16"]
           ELSE /\ wpc' = [wpc EXCEPT ![f] = "raised"]
                /\ UNCHANGED local
    /\ UNCHANGED <<sub_files, mpc, mi, handed, result0, c16, txt, expired, skipLogged,
                   pvars, svars>>

(* lines 231-232 of write_hrf_file.  A failure is caught at line 235 and    *)
(* process_file goes on to check_memory_and_clear.                          *)
WriteC16(f) ==
    /\ wpc[f] = "write_c16"
    /\ \/ /\ c16' = [c16 EXCEPT ![f] = [st |-> "new", data |-> local[f].buff]]
          /\ wpc' = [wpc EXCEPT ![f] = "write_txt"]
       \/ \* open(paths[0], 'wb') raises
          /\ UNCHANGED c16
          /\ wpc' = [wpc EXCEPT ![f] = "check_memory"]
       \/ \* f.write(buffer) raises
          /\ c16' = [c16 EXCEPT ![f] = Partial]
          /\ wpc' = [wpc EXCEPT ![f] = "check_memory"]
    /\ UNCHANGED <<sub_files, mpc, mi, handed, local, result0, txt, expired, skipLogged,
                   pvars, svars>>

\* lines 233-238 of write_hrf_file
WriteTxt(f) ==
    /\ wpc[f] = "write_txt"
    /\ \/ txt' = [txt EXCEPT ![f] =
                     [st |-> "new",
                      data |-> generate_meta_string(
                                   DictGet(local[f].info.info, K_frequency, S_unknown),
                                   PF_sampling_rate)]]
       \/ \* open(paths[1], 'w') raises
          UNCHANGED txt
       \/ \* f.write(...) raises
          txt' = [txt EXCEPT ![f] = Partial]
    /\ wpc' = [wpc EXCEPT ![f] = "check_memory"]
    /\ UNCHANGED <<sub_files, mpc, mi, handed, local, result0, c16, expired, skipLogged,
                   pvars, svars>>

(* line 296, lines 47-51 of check_memory_and_clear: the memory share is     *)
(* measured; above 40 gc.collect() is called, else the call and with it     *)
(* process_file return.                                                     *)
CheckMemory(f) ==
    /\ wpc[f] = "check_memory"
    /\ \E above \in BOOLEAN :
          IF above
          THEN /\ wpc' = [wpc EXCEPT ![f] = "gc"]
               /\ UNCHANGED result0
          ELSE /\ wpc' = [wpc EXCEPT ![f] = "done"]
               /\ result0' = [result0 EXCEPT ![f] = ProcessFileReturn]
    /\ UNCHANGED <<sub_files, mpc, mi, handed, local, c16, txt, expired, skipLogged,
                   pvars, svars>>

\* lines 52-53: gc.collect() returns, and with it process_file
GcCollect(f) ==
    /\ wpc[f] = "gc"
    /\ wpc' = [wpc EXCEPT ![f] = "done"]
    /\ result0' = [result0 EXCEPT ![f] = ProcessFileReturn]
    /\ UNCHANGED <<sub_files, mpc, mi, handed, local, c16, txt, expired, skipLogged,
                   pvars, svars>>

Next ==
    \/ StartThread
    \/ JoinFinished
    \/ JoinTimeout
    \/ CheckAlive
    \/ \E f \in Files : Parse(f)
    \/ \E f \in Files : Convert(f)
    \/ \E f \in Files : WriteC16(f)
    \/ \E f \in Files : WriteTxt(f)
    \/ \E f \in Files : CheckMemory(f)
    \/ \E f \in Files : GcCollect(f)

Spec == Init /\ [][Next]_vars

(* The main thread is always scheduled again and join(timeout) returns; a   *)
(* worker thread may run forever.                                           *)
FairSpec == Spec /\ WF_vars(MainNext)

----------------------------------------------------------------------------
(* Claims about the batch run *)

\* the files handed to the guard so far are the first ones of the list, once each
HandedInOrder == handed = [k \in 1..Len(handed) |-> k]

(* C7: no failure of a file aborts the run: the files are handed to the     *)
(* guard once each, in list order, and main reaches the end of the list,    *)
(* also when a conversion that timed out never ends.                        *)
C7_BatchCompletes ==
    /\ [](HandedInOrder /\ Len(handed) <= NumFiles)
    /\ <>[](mpc = "done" /\ handed = [k \in 1..NumFiles |-> k])

\* the run is over although one conversion raised and a timed-out one never started work
C7_Witness ==
    /\ mpc = "done"
    /\ \E f \in expired : wpc[f] = "parse"
    /\ \E f \in Files : wpc[f] = "raised"

\* the header of file f declares no protocol, or one outside the supported set
Unsupported(f) ==
    LET header == ScanLines(FileLines(sub_files[f]), EmptyDict, FALSE, <<>>).info
    IN  K_protocol \notin DOMAIN header \/ header[K_protocol] \notin SUPPORTED_PROTOCOLS

(* C4: for a file whose header declares an unsupported protocol (the        *)
(* comparison is case-sensitive) or none, parse_sub fails and process_file  *)
(* ends without creating or changing the .c16 or the .txt file.             *)
C4_UnsupportedUntouched ==
    \A f \in Files :
        Unsupported(f) =>
            /\ wpc[f] \in {"idle", "parse", "done"}
            /\ ~local[f].info.ok
            /\ c16[f] = InitialDisk(sub_files[f])
            /\ txt[f] = InitialDisk(sub_files[f])

\* process_file has ended for a file declaring `raw` and for one declaring no
\* protocol; the outputs an earlier run left are as they were
C4_Witness ==
    /\ \E f \in Files :
          /\ sub_files[f] = "lower.sub"
          /\ wpc[f] = "done"
          /\ c16[f] = Old /\ txt[f] = Old
    /\ \E f \in Files :
          /\ sub_files[f] = "noprotocol.sub"
          /\ wpc[f] = "done"
          /\ c16[f] = Absent /\ txt[f] = Absent

\* what the capture gives when it is taken as RAW
RawSequence(info) ==
    durations_to_bin_sequence(
        process_raw(info), PF_sampling_rate,
        Min(PyInt(DictGet(info.info, K_frequency, S_default_frequency), 10).val \div 100, 5000),
        PF_amplitude).sequence

(* C1: a parsed capture of any supported protocol is synthesized from the   *)
(* flattened chunks, unchanged: the sample sequence and the .c16 written    *)
(* are those of the same capture declared RAW.                              *)
C1_SameAsRaw ==
    \A f \in Files :
        (wpc[f] \in Ended /\ local[f].info.ok) =>
            /\ local[f].converted
            /\ local[f].IQSequence = RawSequence(local[f].info)
            /\ c16[f].st = "new" =>
                  c16[f].data = sequence_to_16le_buffer(RawSequence(local[f].info))

(* C6: 'Skipped processing of <file> due to timeout' is logged only for a   *)
(* file whose conversion was still running when the wait expired, never for *)
(* a file converted within the limit.                                       *)
C6_SkipOnlyOnTimeout ==
    \A f \in skipLogged :
        /\ f \in expired
        /\ ~(f \notin expired /\ wpc[f] = "done" /\ c16[f].st = "new" /\ txt[f].st = "new")

(* C9: check_memory_and_clear never executes while the conversion of a file *)
(* (here: after its parse, before the end of its write) is in progress.     *)
C9_CheckBetweenConversions ==
    \A f \in Files : \A g \in Files \ {f} :
        ~(wpc[f] = "gc" /\ wpc[g] \in {"convert", "write_c16", "write_txt"})

(* C10: once write_hrf_file has returned, the .c16 of the conversion is on  *)
(* disk only if its .txt was fully written.                                 *)
C10_NoPartialOutput ==
    \A f \in Files :
        wpc[f] \in {"check_memory", "gc", "done"} =>
            (c16[f].st \in {"new", "partial"} => txt[f].st = "new")

====
